---------------------------- MODULE Spec2Model ----------------------------
(***************************************************************************)
(* Model of build_api_reporter.py: the command line tool that reads a      *)
(* build configuration, checks that every referenced artifact file exists, *)
(* uploads the artifacts to the Ketryx service one by one and reports one  *)
(* build per configured descriptor.                                        *)
(*                                                                         *)
(* One run of main() is one behaviour.  The environment variables, the     *)
(* files on disk and the order in which the directory lists them (which    *)
(* the file system chooses) are fixed when the run starts, the config file *)
(* is drawn when process_build_config opens it, and the answer of the      *)
(* service is drawn at every network call.                                 *)
(***************************************************************************)
EXTENDS Integers, Sequences, FiniteSets, TLC

VARIABLES
    fs,             \* the files that exist on disk
    dirOrder,       \* the existing files in the order the directory lists them
    config,         \* KetryxConfig, built from the environment
    pc,             \* position of main()
    build_config,   \* what yaml.safe_load returned
    configRead,     \* process_build_config has gone to open the config file
    missing_files,  \* process_build_config's list of missing files
    builds,         \* the descriptors process_build_config returned
    idx,            \* 1-based position of main's loop over builds
    entry,          \* 1-based position of main's inner loop over sbom entries
    todo,           \* files the running upload_* call still has to upload
    local,          \* `artifacts` of the running upload_* call
    artifacts,      \* `artifacts` of main()
    artifactsBound, \* main's `artifacts` has been assigned
    calls,          \* every request sent to the service, in order
    stdout,         \* the lines printed
    error,          \* the exception that ended the run
    exitCode        \* the exit code of the process, -1 while it runs

vars == <<fs, dirOrder, config, pc, build_config, configRead, missing_files, builds, idx,
          entry, todo, local, artifacts, artifactsBound, calls, stdout, error,
          exitCode>>

-----------------------------------------------------------------------------
(* Bounds and input domains *)

MaxBuilds == 2

None == "<None>"

Files == {"out/a", "out/b"}

\* The orders in which a directory holding the files S may list them:
\* os.scandir promises none, so every order is possible.
DirOrders(S) ==
    {s \in [1..Cardinality(S) -> S] :
        \A i, j \in 1..Cardinality(S) : i # j => s[i] # s[j]}

\* The path given on the command line.
CONFIG_FILE == "builds.yaml"

BuildNames == <<"build-1", "build-2", "build-3", "build-4">>

JunitLists == {<<>>, <<"out/*">>, <<"out/b", "out/*">>}

CucumberLists == {<<>>, <<"out/a">>}

SbomLists ==
    {<<>>,
     <<[file |-> "out/a", type |-> "cyclonedx"]>>,
     <<[file |-> "out/a", type |-> "cyclonedx"], [file |-> "out/*", type |-> "spdx"]>>,
     <<[file |-> "out/*", type |-> "spdx"], [file |-> "out/b", type |-> "cyclonedx"]>>}

\* A descriptor: `artifacts` of a test-results descriptor is the dict
\* {junit, cucumber} (an absent key reads as the empty list), `artifacts` of
\* an sbom descriptor is the list `entries`.
TestResultsBuilds ==
    {[type |-> "test-results", junit |-> j, cucumber |-> c, entries |-> <<>>] :
        j \in JunitLists, c \in CucumberLists}

SbomBuilds ==
    {[type |-> "sbom", junit |-> <<>>, cucumber |-> <<>>, entries |-> e] :
        e \in SbomLists}

UnknownBuilds ==
    {[type |-> "unknown-type", junit |-> j, cucumber |-> <<>>, entries |-> <<>>] :
        j \in {<<>>, <<"out/b">>}}

Descriptors == TestResultsBuilds \cup SbomBuilds \cup UnknownBuilds

Named(b, i) ==
    [name |-> BuildNames[i], type |-> b.type, junit |-> b.junit,
     cucumber |-> b.cucumber, entries |-> b.entries]

BuildLists ==
    UNION {{[i \in 1..k |-> Named(s[i], i)] : s \in [1..k -> Descriptors]} :
           k \in 0..MaxBuilds}

\* The config file: whether it exists, the top-level keys of the parsed
\* document, whether the value of `builds` is null, and otherwise the list
\* that `builds` holds.
ConfigFiles ==
    {[found |-> FALSE, keys |-> {}, is_null |-> FALSE, builds |-> <<>>],
     [found |-> TRUE, keys |-> {}, is_null |-> FALSE, builds |-> <<>>],
     [found |-> TRUE, keys |-> {"name"}, is_null |-> FALSE, builds |-> <<>>],
     [found |-> TRUE, keys |-> {"builds"}, is_null |-> TRUE, builds |-> <<>>]}
    \cup {[found |-> TRUE, keys |-> {"builds"}, is_null |-> FALSE, builds |-> bs] :
             bs \in BuildLists}

KetryxConfigs ==
    [ketryx_url : {None, "https://ketryx"},
     project    : {None, "proj"},
     api_key    : {None, "key"},
     commit_sha : {None, "abc123"},
     version    : {None, "", "1.0"}]

\* What the service may answer to a request.
Responses ==
    {[status_code |-> 200, text |-> "ok"],
     [status_code |-> 201, text |-> "created"],
     [status_code |-> 500, text |-> "server error"]}

GITHUB_SERVER_URL == "https://github"
GITHUB_REPOSITORY == "org/repo"

-----------------------------------------------------------------------------
(* Helpers *)

\* Python truthiness of an Optional[str].
Truthy(x) == x # None /\ x # ""

Matches(pattern, file) == pattern = file \/ pattern = "out/*"

\* glob.glob(pattern)
Glob(pattern) ==
    SelectSeq(dirOrder, LAMBDA f : Matches(pattern, f))

RECURSIVE Concat(_)
Concat(ss) == IF ss = <<>> THEN <<>> ELSE Head(ss) \o Concat(Tail(ss))


Last(s) == s[Len(s)]

-----------------------------------------------------------------------------
(* The service *)

SuccessfulCalls(op) ==
    {i \in 1..Len(calls) : calls[i].op = op /\ calls[i].status_code = 200}

\* response.json()['id'] of the next successful upload: a fresh identifier.
NextArtifactId == Cardinality(SuccessfulCalls("upload")) + 1

\* response.json()['buildId'] of the next successful report.
NextBuildId == Cardinality(SuccessfulCalls("report")) + 1

-----------------------------------------------------------------------------
(* process_build_config: the validation pass *)

\* The entries one list of patterns adds to missing_files.
RECURSIVE MissingIn(_, _)
MissingIn(label, paths) ==
    IF paths = <<>> THEN <<>>
    ELSE (IF Glob(Head(paths)) = <<>> THEN <<<<label, Head(paths)>>>> ELSE <<>>)
         \o MissingIn(label, Tail(paths))

EntryFiles(entries) == [i \in 1..Len(entries) |-> entries[i].file]

MissingOfBuild(build) ==
    IF build.type = "test-results"
    THEN MissingIn("JUnit file not found: ", build.junit)
         \o MissingIn("Cucumber file not found: ", build.cucumber)
    ELSE IF build.type = "sbom"
    THEN MissingIn("SBOM file not found: ", EntryFiles(build.entries))
    ELSE <<>>

RECURSIVE MissingFirstOnly(_)
MissingFirstOnly(bs) ==
    IF bs = <<>> THEN <<>>
    ELSE IF MissingOfBuild(Head(bs)) # <<>> THEN <<Head(MissingOfBuild(Head(bs)))>>
    ELSE MissingFirstOnly(Tail(bs))

RECURSIVE MissingFiles(_)
MissingFiles(bs) ==
    IF bs = <<>> THEN <<>>
    ELSE MissingOfBuild(Head(bs)) \o MissingFiles(Tail(bs))

\* `not build_config or 'builds' not in build_config` is false.
HasBuilds(bc) == bc.keys # {} /\ "builds" \in bc.keys

ExitNever(missing) == FALSE

\* `if missing_files:`
ExitOnMissing(missing) == missing # <<>>

-----------------------------------------------------------------------------
(* KetryxReporter *)

UploadFailedOnErrorOnly(response) == response.status_code >= 400

\* upload_artifact: `if response.status_code != 200`
UploadFailed(response) == response.status_code # 200

ReportNeverFails(response) == FALSE

\* report_build: `if response.status_code != 200`
ReportFailed(response) == response.status_code # 200

\* The uploads of one group of patterns, pattern by pattern, each pattern's
\* matches in glob order.
GroupWork(paths, content_type, type, grp) ==
    Concat([i \in 1..Len(paths) |->
              [j \in 1..Len(Glob(paths[i])) |->
                 [file |-> Glob(paths[i])[j], content_type |-> content_type,
                  type |-> type, grp |-> grp, pat |-> i]]])

TestResultsWorkCucumberFirst(junit_paths, cucumber_paths) ==
    GroupWork(cucumber_paths, "application/json", "cucumber-json", "cucumber")
    \o GroupWork(junit_paths, "application/xml", "junit-xml", "junit")

\* upload_test_results: the uploads it makes, in order.
TestResultsWork(junit_paths, cucumber_paths) ==
    GroupWork(junit_paths, "application/xml", "junit-xml", "junit")
    \o GroupWork(cucumber_paths, "application/json", "cucumber-json", "cucumber")

\* f'{sbom_type}-json'
SbomTypeTag(sbom_type) ==
    CASE sbom_type = "cyclonedx" -> "cyclonedx-json"
      [] sbom_type = "spdx" -> "spdx-json"

\* upload_sbom: the uploads it makes, in order.
SbomWork(sbom_paths, sbom_type) ==
    GroupWork(sbom_paths, "application/json", SbomTypeTag(sbom_type), "sbom")

RepositoryUrls == <<<<GITHUB_SERVER_URL, "/", GITHUB_REPOSITORY>>>>

\* report_build: the JSON body it posts.
ReportData(cfg, build_name, arts) ==
    IF Truthy(cfg.version)
    THEN [project |-> cfg.project, buildName |-> build_name, artifacts |-> arts,
          sourceUrl |-> GITHUB_SERVER_URL, repositoryUrls |-> RepositoryUrls,
          version |-> cfg.version]
    ELSE IF Truthy(cfg.commit_sha)
    THEN [project |-> cfg.project, buildName |-> build_name, artifacts |-> arts,
          sourceUrl |-> GITHUB_SERVER_URL, repositoryUrls |-> RepositoryUrls,
          commitSha |-> cfg.commit_sha]
    ELSE [project |-> cfg.project, buildName |-> build_name, artifacts |-> arts,
          sourceUrl |-> GITHUB_SERVER_URL, repositoryUrls |-> RepositoryUrls]

-----------------------------------------------------------------------------
(* main *)

EnvOKWithoutVersion(cfg) == Truthy(cfg.project) /\ Truthy(cfg.api_key)

\* all([config.project, config.api_key, config.version])
EnvOK(cfg) == Truthy(cfg.project) /\ Truthy(cfg.api_key) /\ Truthy(cfg.version)

\* The run ends with an exception raised outside main's try block.
Raise(type, msg) ==
    /\ pc' = "failed"
    /\ exitCode' = 1
    /\ error' = [type |-> type, msg |-> msg]

\* The run ends with an exception raised inside main's try block: the handler
\* prints it and raises it again.
RaiseInTry(type, msg) ==
    /\ Raise(type, msg)
    /\ stdout' = Append(stdout, <<"Error: ">> \o msg)

\* Where main's loop stands after descriptor i: at the next descriptor, or at
\* the end of main.
AfterBuild(bs, i) == IF i < Len(bs) THEN "loop" ELSE "done"

ExitAfterBuild(bs, i) == IF i < Len(bs) THEN -1 ELSE 0

Init ==
    /\ fs \in SUBSET Files
    /\ dirOrder \in DirOrders(fs)
    /\ config \in KetryxConfigs
    /\ pc = "start"
    /\ build_config = [found |-> FALSE, keys |-> {}, is_null |-> FALSE, builds |-> <<>>]
    /\ configRead = FALSE
    /\ missing_files = <<>>
    /\ builds = <<>>
    /\ idx = 0
    /\ entry = 0
    /\ todo = <<>>
    /\ local = <<>>
    /\ artifacts = <<>>
    /\ artifactsBound = FALSE
    /\ calls = <<>>
    /\ stdout = <<>>
    /\ error = [type |-> "", msg |-> <<>>]
    /\ exitCode = -1

\* main, up to the construction of the reporter.
Startup ==
    /\ pc = "start"
    /\ IF ~EnvOK(config)
       THEN Raise("ValueError", <<"Missing required environment variables">>)
       ELSE IF config.ketryx_url = None
       THEN Raise("AttributeError", <<"'NoneType' object has no attribute 'rstrip'">>)
       ELSE /\ pc' = "load"
            /\ UNCHANGED <<exitCode, error>>
    /\ UNCHANGED <<fs, dirOrder, config, build_config, configRead, missing_files, builds,
                   idx, entry, todo, local, artifacts, artifactsBound, calls,
                   stdout>>

\* process_build_config, and main's entry into its loop.  The header of the
\* list of missing files is printed as "\nMissing files:": an empty line,
\* then the header.
ProcessBuildConfig ==
    /\ pc = "load"
    /\ \E bc \in ConfigFiles :
        /\ build_config' = bc
        /\ configRead' = TRUE
        /\ IF ~bc.found
           THEN /\ RaiseInTry("FileNotFoundError",
                              <<"[Errno 2] No such file or directory: '",
                                CONFIG_FILE, "'">>)
                /\ UNCHANGED <<missing_files, builds, idx>>
           ELSE IF ~HasBuilds(bc)
           THEN /\ RaiseInTry("ValueError",
                              <<"Invalid config file: missing 'builds' section">>)
                /\ UNCHANGED <<missing_files, builds, idx>>
           ELSE IF bc.is_null
           THEN /\ RaiseInTry("TypeError", <<"'NoneType' object is not iterable">>)
                /\ UNCHANGED <<missing_files, builds, idx>>
           ELSE IF ExitOnMissing(MissingFiles(bc.builds))
           THEN /\ missing_files' = MissingFiles(bc.builds)
                /\ stdout' = Append(Append(stdout, <<"">>), <<"Missing files:">>)
                                \o [i \in 1..Len(MissingFiles(bc.builds)) |->
                                      <<"  - ">> \o MissingFiles(bc.builds)[i]]
                /\ Raise("SystemExit", <<"1">>)
                /\ UNCHANGED <<builds, idx>>
           ELSE /\ missing_files' = MissingFiles(bc.builds)
                /\ builds' = bc.builds
                /\ idx' = 1
                /\ pc' = AfterBuild(bc.builds, 0)
                /\ exitCode' = ExitAfterBuild(bc.builds, 0)
                /\ UNCHANGED <<stdout, error>>
    /\ UNCHANGED <<fs, dirOrder, config, entry, todo, local, artifacts, artifactsBound,
                   calls>>


\* main's loop reaches a test-results descriptor and calls upload_test_results.
StartTestResults ==
    /\ pc = "loop"
    /\ builds[idx].type = "test-results"
    /\ local' = <<>>
    /\ todo' = TestResultsWork(builds[idx].junit, builds[idx].cucumber)
    /\ entry' = 0
    /\ pc' = "upload_test_results"
    /\ UNCHANGED <<fs, dirOrder, config, build_config, configRead, missing_files, builds,
                   idx, artifacts, artifactsBound, calls, stdout, error, exitCode>>

\* main's loop reaches an sbom descriptor: it calls upload_sbom for the first
\* entry, or goes on to report_build when the descriptor has no entry.
StartSbom ==
    /\ pc = "loop"
    /\ builds[idx].type = "sbom"
    /\ IF builds[idx].entries = <<>>
       THEN /\ pc' = "report"
            /\ entry' = 0
            /\ UNCHANGED <<local, todo>>
       ELSE /\ pc' = "upload_sbom"
            /\ entry' = 1
            /\ local' = <<>>
            /\ todo' = SbomWork(<<builds[idx].entries[1].file>>,
                                builds[idx].entries[1].type)
    /\ UNCHANGED <<fs, dirOrder, config, build_config, configRead, missing_files, builds,
                   idx, artifacts, artifactsBound, calls, stdout, error, exitCode>>

WarnUnknownAndReset ==
    /\ pc = "loop"
    /\ builds[idx].type \notin {"test-results", "sbom"}
    /\ stdout' = Append(stdout, <<"Warning: Unknown build type '", builds[idx].type, "'">>)
    /\ idx' = idx + 1
    /\ pc' = AfterBuild(builds, idx)
    /\ exitCode' = ExitAfterBuild(builds, idx)
    /\ artifacts' = <<>>
    /\ artifactsBound' = TRUE
    /\ UNCHANGED <<fs, dirOrder, config, build_config, configRead, missing_files, builds,
                   entry, todo, local, calls, error>>

\* main's loop reaches a descriptor of any other type: a warning, `continue`.
WarnUnknown ==
    /\ pc = "loop"
    /\ builds[idx].type \notin {"test-results", "sbom"}
    /\ stdout' = Append(stdout, <<"Warning: Unknown build type '", builds[idx].type, "'">>)
    /\ idx' = idx + 1
    /\ pc' = AfterBuild(builds, idx)
    /\ exitCode' = ExitAfterBuild(builds, idx)
    /\ UNCHANGED <<fs, dirOrder, config, build_config, configRead, missing_files, builds,
                   entry, todo, local, artifacts, artifactsBound, calls, error>>

\* upload_artifact for the next file of the running upload_* call, and the
\* append of its result.
UploadArtifact ==
    /\ pc \in {"upload_test_results", "upload_sbom"}
    /\ todo # <<>>
    /\ \E response \in Responses :
        /\ calls' = Append(calls,
              [op |-> "upload", desc |-> idx, entry |-> entry,
               grp |-> Head(todo).grp, pat |-> Head(todo).pat,
               request |-> [project |-> config.project, file |-> Head(todo).file,
                            content_type |-> Head(todo).content_type],
               status_code |-> response.status_code, text |-> response.text,
               id |-> IF response.status_code = 200 THEN NextArtifactId ELSE 0])
        /\ IF UploadFailed(response)
           THEN /\ RaiseInTry("Exception",
                              <<"Failed to upload artifact: ", response.text>>)
                /\ UNCHANGED <<todo, local>>
           ELSE /\ local' = Append(local, [id |-> NextArtifactId,
                                           type |-> Head(todo).type])
                /\ todo' = Tail(todo)
                /\ UNCHANGED <<pc, exitCode, error, stdout>>
    /\ UNCHANGED <<fs, dirOrder, config, build_config, configRead, missing_files, builds,
                   idx, entry, artifacts, artifactsBound>>

\* upload_test_results returns: main assigns its result to `artifacts`.
ReturnTestResults ==
    /\ pc = "upload_test_results"
    /\ todo = <<>>
    /\ artifacts' = local
    /\ artifactsBound' = TRUE
    /\ pc' = "report"
    /\ UNCHANGED <<fs, dirOrder, config, build_config, configRead, missing_files, builds,
                   idx, entry, todo, local, calls, stdout, error, exitCode>>

\* upload_sbom returns: main assigns its result to `artifacts` and goes on to
\* the descriptor's next entry, or to report_build after the last one.
ReturnSbom ==
    /\ pc = "upload_sbom"
    /\ todo = <<>>
    /\ artifacts' = local
    /\ artifactsBound' = TRUE
    /\ IF entry < Len(builds[idx].entries)
       THEN /\ entry' = entry + 1
            /\ local' = <<>>
            /\ todo' = SbomWork(<<builds[idx].entries[entry + 1].file>>,
                                builds[idx].entries[entry + 1].type)
            /\ pc' = pc
       ELSE /\ pc' = "report"
            /\ UNCHANGED <<entry, local, todo>>
    /\ UNCHANGED <<fs, dirOrder, config, build_config, configRead, missing_files, builds,
                   idx, calls, stdout, error, exitCode>>

\* main calls report_build with `artifacts` and prints the build identifier.
ReportBuild ==
    /\ pc = "report"
    /\ IF ~artifactsBound
       THEN /\ RaiseInTry("UnboundLocalError",
                          <<"cannot access local variable 'artifacts' where it is not associated with a value">>)
            /\ UNCHANGED <<calls, idx>>
       ELSE \E response \in Responses :
            /\ calls' = Append(calls,
                  [op |-> "report", desc |-> idx, entry |-> 0,
                   grp |-> "report", pat |-> 0,
                   request |-> ReportData(config, builds[idx].name, artifacts),
                   status_code |-> response.status_code, text |-> response.text,
                   id |-> IF response.status_code = 200 THEN NextBuildId ELSE 0])
            /\ IF ReportFailed(response)
               THEN /\ RaiseInTry("Exception",
                                  <<"Failed to report build: ", response.text>>)
                    /\ UNCHANGED idx
               ELSE /\ stdout' = Append(stdout,
                          <<"Reported ", builds[idx].name, " to Ketryx: ",
                            ToString(NextBuildId)>>)
                    /\ idx' = idx + 1
                    /\ pc' = AfterBuild(builds, idx)
                    /\ exitCode' = ExitAfterBuild(builds, idx)
                    /\ UNCHANGED error
    /\ UNCHANGED <<fs, dirOrder, config, build_config, configRead, missing_files, builds,
                   entry, todo, local, artifacts, artifactsBound>>

Next ==
    \/ Startup
    \/ ProcessBuildConfig
    \/ StartTestResults
    \/ StartSbom
    \/ WarnUnknown
    \/ UploadArtifact
    \/ ReturnTestResults
    \/ ReturnSbom
    \/ ReportBuild

Spec == Init /\ [][Next]_vars

\* main runs to its end: the interpreter never stops halfway.
FairSpec == Spec /\ WF_vars(Next)

-----------------------------------------------------------------------------
(* KetryxReporter.report_build on its own: a reporter built from any       *)
(* KetryxConfig is asked to report a build with a given list of artifacts. *)

ArtifactLists ==
    {<<>>,
     <<[id |-> 1, type |-> "junit-xml"]>>,
     <<[id |-> 1, type |-> "junit-xml"], [id |-> 2, type |-> "cucumber-json"]>>}

InitReporter ==
    /\ fs = Files
    /\ dirOrder \in DirOrders(fs)
    /\ config \in {c \in KetryxConfigs : c.ketryx_url # None}
    /\ pc = "report"
    /\ build_config = [found |-> FALSE, keys |-> {}, is_null |-> FALSE, builds |-> <<>>]
    /\ configRead = FALSE
    /\ missing_files = <<>>
    /\ builds \in {<<Named(b, 1)>> : b \in TestResultsBuilds \cup SbomBuilds}
    /\ idx = 1
    /\ entry = 0
    /\ todo = <<>>
    /\ local = <<>>
    /\ artifacts \in ArtifactLists
    /\ artifactsBound = TRUE
    /\ calls = <<>>
    /\ stdout = <<>>
    /\ error = [type |-> "", msg |-> <<>>]
    /\ exitCode = -1

NextReporter == ReportBuild

SpecReporter == InitReporter /\ [][NextReporter]_vars


-----------------------------------------------------------------------------
(* Vocabulary of the properties *)

KnownKind(b) == b.type \in {"test-results", "sbom"}

Terminated == pc \in {"done", "failed"}

\* Every glob pattern the config names in a test-results or sbom descriptor,
\* in config order, each with the label of its kind.
PatternEntries(b) ==
    IF b.type = "test-results"
    THEN [i \in 1..Len(b.junit) |-> <<"JUnit file not found: ", b.junit[i]>>]
         \o [i \in 1..Len(b.cucumber) |-> <<"Cucumber file not found: ", b.cucumber[i]>>]
    ELSE IF b.type = "sbom"
    THEN [i \in 1..Len(b.entries) |-> <<"SBOM file not found: ", b.entries[i].file>>]
    ELSE <<>>

AllPatternEntries(bs) == Concat([i \in 1..Len(bs) |-> PatternEntries(bs[i])])

Unmatched(e) == \A f \in fs : ~Matches(e[2], f)

SomePatternUnmatched(bs) ==
    \E i \in 1..Len(AllPatternEntries(bs)) : Unmatched(AllPatternEntries(bs)[i])

\* Config loading succeeded: the file was read, has a list under `builds`,
\* and every pattern matched.
LoadSucceeded ==
    /\ configRead
    /\ build_config.found
    /\ "builds" \in build_config.keys
    /\ ~build_config.is_null
    /\ ~SomePatternUnmatched(build_config.builds)

CallsOf(op, d) == {i \in 1..Len(calls) : calls[i].op = op /\ calls[i].desc = d}

AckedCallsOf(op, d) == {i \in CallsOf(op, d) : calls[i].status_code = 200}

\* The identifiers the service returned for the uploads of descriptor d, in
\* the order of the uploads.
UploadedIds(d) ==
    LET ups == SelectSeq(calls, LAMBDA c : c.op = "upload" /\ c.desc = d
                                           /\ c.status_code = 200)
    IN  [i \in 1..Len(ups) |-> ups[i].id]

ArtifactIds(arts) == [i \in 1..Len(arts) |-> arts[i].id]

\* Main's loop has gone past descriptor d.
Processed(d) == pc \in {"loop", "upload_test_results", "upload_sbom", "report", "done"}
                /\ idx > d

MissingValue(x) == x = None \/ x = ""

RequiredEnvMissing ==
    MissingValue(config.project) \/ MissingValue(config.api_key)
    \/ MissingValue(config.version)

-----------------------------------------------------------------------------
(* C1 *)

\* C1: fail-fast.  A request reaches the service only in a run whose config
\* loading succeeded (the file has `builds` and every pattern of every
\* test-results and sbom descriptor matched a file); a config without
\* `builds`, or with a pattern that matches nothing, ends the run in failure
\* with no upload and no report.
C1_FailFast ==
    /\ calls # <<>> => LoadSucceeded
    /\ (configRead /\ ~LoadSucceeded) =>
          pc = "failed" /\ exitCode = 1 /\ calls = <<>>

\* The second descriptor names a pattern that matches nothing while the first
\* could have been uploaded in full: the run failed without a request.
C1_Witness ==
    /\ pc = "failed"
    /\ calls = <<>>
    /\ Len(build_config.builds) = 2
    /\ PatternEntries(build_config.builds[1]) # <<>>
    /\ ~SomePatternUnmatched(<<build_config.builds[1]>>)
    /\ SomePatternUnmatched(<<build_config.builds[2]>>)

-----------------------------------------------------------------------------
(* C2 *)

\* C2: the validation pass is exhaustive.  When loading fails because of
\* missing files, the list holds one entry for every pattern without a match,
\* over all test-results and sbom descriptors, in config order, and no entry
\* for a pattern that matched; the printed list is that list.
C2_MissingListComplete ==
    error.type = "SystemExit" =>
        /\ missing_files = SelectSeq(AllPatternEntries(build_config.builds), Unmatched)
        /\ missing_files # <<>>
        /\ Len(stdout) = Len(missing_files) + 2
        /\ stdout[1] = <<"">>
        /\ stdout[2] = <<"Missing files:">>
        /\ \A i \in 1..Len(missing_files) : stdout[i + 2] = <<"  - ">> \o missing_files[i]

\* Two descriptors each name a pattern without a match, and some pattern of
\* the config did match.
C2_Witness ==
    /\ error.type = "SystemExit"
    /\ Len(build_config.builds) = 2
    /\ SomePatternUnmatched(<<build_config.builds[1]>>)
    /\ SomePatternUnmatched(<<build_config.builds[2]>>)
    /\ Len(missing_files) < Len(AllPatternEntries(build_config.builds))

-----------------------------------------------------------------------------
(* C3 *)

\* C3: one report per descriptor, all its artifacts aggregated.  For every
\* test-results or sbom descriptor processed without failure there is exactly
\* one report, and its artifacts are all the artifacts uploaded for the
\* descriptor, in upload order.
C3_OneReportAllArtifacts ==
    \A d \in 1..Len(builds) :
        (KnownKind(builds[d]) /\ Processed(d)) =>
            /\ Cardinality(CallsOf("report", d)) = 1
            /\ \A i \in CallsOf("report", d) :
                  ArtifactIds(calls[i].request.artifacts) = UploadedIds(d)

-----------------------------------------------------------------------------
(* C4 *)

\* The patterns of group grp of descriptor b.
GroupPatterns(b, grp) ==
    IF grp = "junit" THEN b.junit
    ELSE IF grp = "cucumber" THEN b.cucumber
    ELSE EntryFiles(b.entries)

\* C4: order of the requests.  Descriptors are served in config order: every
\* request of a descriptor comes after the acknowledged report of every
\* earlier test-results or sbom descriptor; the report of a descriptor is its
\* last request; within a test-results descriptor junit uploads come before
\* cucumber uploads and, within a group, the patterns are served in the order
\* given.  Each request is the one the config asks for: the report carries
\* the descriptor's name, the upload a file its pattern matches.
C4_CallOrder ==
    /\ \A i, j \in 1..Len(calls) :
          i < j =>
            /\ calls[i].desc <= calls[j].desc
            /\ calls[i].desc = calls[j].desc =>
                /\ calls[i].op = "upload"
                /\ (calls[j].op = "upload" /\ builds[calls[i].desc].type = "test-results") =>
                      /\ ~(calls[i].grp = "cucumber" /\ calls[j].grp = "junit")
                      /\ calls[i].grp = calls[j].grp => calls[i].pat <= calls[j].pat
    /\ \A j \in 1..Len(calls) :
          /\ calls[j].desc \in 1..Len(builds)
          /\ KnownKind(builds[calls[j].desc])
          /\ \A d \in 1..(calls[j].desc - 1) :
                KnownKind(builds[d]) =>
                    \E i \in 1..(j - 1) : i \in AckedCallsOf("report", d)
          /\ calls[j].op = "report" =>
                calls[j].request.buildName = builds[calls[j].desc].name
          /\ calls[j].op = "upload" =>
                /\ calls[j].grp \in
                      (IF builds[calls[j].desc].type = "sbom" THEN {"sbom"}
                       ELSE {"junit", "cucumber"})
                /\ calls[j].pat \in
                      1..Len(GroupPatterns(builds[calls[j].desc], calls[j].grp))
                /\ Matches(IF calls[j].grp = "sbom"
                           THEN builds[calls[j].desc].entries[calls[j].entry].file
                           ELSE GroupPatterns(builds[calls[j].desc],
                                              calls[j].grp)[calls[j].pat],
                           calls[j].request.file)
                /\ calls[j].request.content_type =
                      (IF calls[j].grp = "junit" THEN "application/xml"
                       ELSE "application/json")

\* Two test-results descriptors, the first with two junit patterns and a
\* cucumber pattern, were both uploaded and reported.
C4_Witness ==
    /\ pc = "done"
    /\ Len(builds) = 2
    /\ builds[1].type = "test-results" /\ builds[2].type = "test-results"
    /\ Len(builds[1].junit) = 2 /\ Len(builds[1].cucumber) = 1
    /\ \E i \in CallsOf("upload", 1) : calls[i].grp = "junit" /\ calls[i].pat = 2
    /\ \E i \in CallsOf("upload", 1) : calls[i].grp = "cucumber"
    /\ CallsOf("upload", 2) # {}
    /\ AckedCallsOf("report", 2) # {}


-----------------------------------------------------------------------------
(* C5 *)

FailurePrefix(op) ==
    IF op = "upload" THEN "Failed to upload artifact: " ELSE "Failed to report build: "

\* C5: abort on the first failed call.  A request answered with a status
\* other than 200 is the last request of the run: the run has failed with an
\* exception whose message ends with the response body as received, the
\* failed call is not repeated, and a descriptor whose upload failed has no
\* report.
C5_AbortOnFirstFailure ==
    \A i \in 1..Len(calls) :
        calls[i].status_code # 200 =>
            /\ i = Len(calls)
            /\ pc = "failed"
            /\ exitCode = 1
            /\ error = [type |-> "Exception",
                        msg |-> <<FailurePrefix(calls[i].op), calls[i].text>>]
            /\ Last(stdout) = <<"Error: ", FailurePrefix(calls[i].op), calls[i].text>>
            /\ calls[i].op = "upload" => CallsOf("report", calls[i].desc) = {}

\* An upload of the second descriptor was answered 201 after the first
\* descriptor had been reported, while a later file of the descriptor was
\* still to be uploaded.
C5_Witness ==
    /\ pc = "failed"
    /\ calls # <<>>
    /\ Last(calls).op = "upload"
    /\ Last(calls).status_code = 201
    /\ Last(calls).desc = 2
    /\ AckedCallsOf("report", 1) # {}
    /\ Len(todo) > 1

-----------------------------------------------------------------------------
(* C6 *)

\* C6: a descriptor of unknown kind is skipped.  The step of main's loop that
\* meets a descriptor whose type is neither test-results nor sbom prints a
\* warning, sends no request, and leaves everything the later descriptors are
\* processed from (main's artifacts, the requests so far, the descriptors)
\* as it was, moving only to the next descriptor without failing; and the
\* patterns of such a descriptor never enter the list of missing files.
C6_UnknownSkipped ==
    /\ [][(pc = "loop" /\ ~KnownKind(builds[idx])) =>
            /\ calls' = calls
            /\ artifacts' = artifacts
            /\ artifactsBound' = artifactsBound
            /\ builds' = builds
            /\ config' = config
            /\ fs' = fs
            /\ dirOrder' = dirOrder
            /\ error' = error
            /\ idx' = idx + 1
            /\ pc' = (IF idx = Len(builds) THEN "done" ELSE "loop")
            /\ exitCode' = (IF idx = Len(builds) THEN 0 ELSE -1)
            /\ stdout' = Append(stdout, <<"Warning: Unknown build type '",
                                          builds[idx].type, "'">>)]_vars
    /\ [](Len(missing_files) =
             Len(SelectSeq(AllPatternEntries(
                    SelectSeq(build_config.builds, KnownKind)), Unmatched)))

\* A descriptor of unknown kind, whose pattern matches nothing, was skipped
\* after a descriptor that left artifacts behind, and the run ended well.
C6_Witness ==
    /\ pc = "done"
    /\ exitCode = 0
    /\ Len(builds) = 2
    /\ KnownKind(builds[1])
    /\ ~KnownKind(builds[2])
    /\ builds[2].junit # <<>>
    /\ \A f \in fs : ~Matches(builds[2].junit[1], f)
    /\ artifacts # <<>>
    /\ Len(calls) >= 2

-----------------------------------------------------------------------------
(* C7 *)

VersionKeys(data) == {"version", "commitSha"} \cap DOMAIN data

\* C7: version precedence.  Every payload report_build submits holds exactly
\* one of the keys version and commitSha: version when a version is
\* configured, commitSha when no version but a commit is configured.
C7_ExactlyOneVersionKey ==
    \A i \in 1..Len(calls) :
        calls[i].op = "report" =>
            /\ Cardinality(VersionKeys(calls[i].request)) = 1
            /\ ~MissingValue(config.version) =>
                  VersionKeys(calls[i].request) = {"version"}
            /\ (MissingValue(config.version) /\ ~MissingValue(config.commit_sha)) =>
                  VersionKeys(calls[i].request) = {"commitSha"}

-----------------------------------------------------------------------------
(* C8 *)

\* C8: required startup configuration.  A run started with the project, the
\* api key or the version missing or empty fails with a configuration error
\* before the config file is read and before any request; so every report a
\* run of main submits carries the configured version, and a run with no
\* version and a commit never submits a report.
C8_RequiredEnv ==
    /\ (pc # "start" /\ RequiredEnvMissing) =>
          /\ pc = "failed"
          /\ exitCode = 1
          /\ error.type = "ValueError"
          /\ ~configRead
          /\ calls = <<>>
    /\ \A i \in 1..Len(calls) :
          calls[i].op = "report" =>
              /\ "version" \in DOMAIN calls[i].request
              /\ calls[i].request.version = config.version
              /\ ~MissingValue(config.version)
    /\ (MissingValue(config.version) /\ ~MissingValue(config.commit_sha)) =>
          \A i \in 1..Len(calls) : calls[i].op # "report"

\* Only the version is missing, a commit is set: the run has failed at
\* startup.
C8_Witness ==
    /\ pc = "failed"
    /\ MissingValue(config.version)
    /\ ~MissingValue(config.commit_sha)
    /\ ~MissingValue(config.project)
    /\ ~MissingValue(config.api_key)
    /\ config.ketryx_url # None

-----------------------------------------------------------------------------
(* C9 *)

\* Descriptor d had every file its patterns match uploaded and its report
\* acknowledged.
FullyServed(d) ==
    /\ \A k \in 1..Len(PatternEntries(build_config.builds[d])) :
          \A f \in fs :
              Matches(PatternEntries(build_config.builds[d])[k][2], f) =>
                  \E i \in AckedCallsOf("upload", d) : calls[i].request.file = f
    /\ AckedCallsOf("report", d) # {}

RunSucceeded ==
    /\ LoadSucceeded
    /\ \A d \in 1..Len(build_config.builds) :
          KnownKind(build_config.builds[d]) => FullyServed(d)

\* C9: run outcome.  Every run terminates; it ends with exit code 0 exactly
\* when config loading and validation succeeded and every test-results or
\* sbom descriptor had all its matched files uploaded and its report
\* acknowledged with status 200, and with a non-zero exit code otherwise.
C9_RunOutcome ==
    /\ <>Terminated
    /\ [](Terminated => /\ exitCode \in {0, 1}
                        /\ exitCode = 0 <=> RunSucceeded
                        /\ exitCode = 0 <=> pc = "done")
    /\ [](~Terminated => exitCode = -1)

\* A run over two descriptors, an sbom one among them, ended with exit code 0
\* after at least three requests.
C9_Witness ==
    /\ pc = "done"
    /\ exitCode = 0
    /\ Len(builds) = 2
    /\ KnownKind(builds[1]) /\ KnownKind(builds[2])
    /\ \E d \in 1..2 : builds[d].type = "sbom" /\ builds[d].entries # <<>>
    /\ Len(calls) >= 3

-----------------------------------------------------------------------------
(* C10 *)

\* C10: no carry-over between descriptors.  Every artifact in the report of a
\* descriptor was returned by an upload made for that descriptor, and no
\* report is attempted with main's artifacts left unassigned.
C10_NoCarryOver ==
    /\ \A i \in 1..Len(calls) :
          calls[i].op = "report" =>
              \A k \in 1..Len(calls[i].request.artifacts) :
                  \E u \in AckedCallsOf("upload", calls[i].desc) :
                      calls[u].id = calls[i].request.artifacts[k].id
    /\ error.type # "UnboundLocalError"

=============================================================================
